---- MODULE Spec2Model ----
(***************************************************************************)
(* Model of dora-bot (src/app.py): a Telegram bot that logs walks per      *)
(* chat in SQLite, attaches a poll outcome to the latest walk of a user,   *)
(* and runs a 30-minute sweep that reminds every registered chat whose     *)
(* last walk is overdue, outside quiet hours and at most once per 6 hours. *)
(*                                                                         *)
(* Time is counted in whole seconds from a UTC midnight.  The synchronous  *)
(* part of a coroutine (everything between two awaits) is one step: the    *)
(* event loop runs nothing else in between, and the clock reads inside it  *)
(* are taken as one instant.                                               *)
(***************************************************************************)
EXTENDS Integers, Sequences, FiniteSets, TLC

VARIABLES
    now,            \* the wall clock, now_utc(), in seconds
    QUIET_START,    \* time(hour, minute) read from the environment at start-up
    QUIET_END,
    chat_data,      \* keys of application.chat_data, in insertion order
    chats,          \* table chats: chat_id -> [title, last_alert_utc]
    walks,          \* table walks, in id order: [chat_id, user_id, ts_utc, poop]
    jobs,           \* overdue_check coroutines suspended in send_message
    next_run,       \* next fire time of the repeating overdue_check job
    delivered,      \* per chat: call instant of the last reminder Telegram delivered
    failed,         \* per chat: call instant of the last reminder whose send raised
    ended,          \* keys the overdue_check run that ended last never evaluated
    ret,            \* outcome of the last direct call of a function: value or exception
    digest,         \* the daily_digest coroutine: its keys, position and messages sent
    alert_writes    \* per chat: number of committed UPDATEs of last_alert_utc

vars == <<now, QUIET_START, QUIET_END, chat_data, chats, walks, jobs, next_run,
          delivered, failed, ended, ret, digest, alert_writes>>

-----------------------------------------------------------------------------
(* Program constants *)

MAX_HOURS == 6
THROTTLE_HOURS == 6
INTERVAL == 1800
FIRST == 60
UTC_OFFSET == 3600

HOUR == 60 * 60
DAY == 24 * HOUR

\* SQL NULL / Python None in a timestamp column, and in the poop column
NoTime == 0 - 1
NoPoop == "NULL"
None == [fn |-> "none", val |-> FALSE]

-----------------------------------------------------------------------------
(* Bounds of the model *)

Chats == {1, 2}
Titles == {"dora"}

-----------------------------------------------------------------------------
(* Configuration and clock *)

\* parse_hhmm: "HH:MM" split on ":" is modelled as the pair <<HH, MM>>
parse_hhmm(s) == [hour |-> s[1], minute |-> s[2]]

\* order of datetime.time objects that carry hour and minute only
TimeLE(a, b) == a.hour < b.hour \/ (a.hour = b.hour /\ a.minute <= b.minute)

\* now_utc().astimezone(TZ): the wall clock of Europe/Madrid (CET, UTC+1)
astimezone(t) == t + UTC_OFFSET

\* local_dt.replace(hour=h, minute=m, second=0, microsecond=0): same date
replace(local_dt, tm) == (local_dt - (local_dt % DAY)) + tm.hour * HOUR + tm.minute * 60

\* faulty variant: the evaluated instant is cut to the minute first
is_quiet_truncating(local_dt) ==
    LET t == local_dt - (local_dt % 60)
        start == replace(t, QUIET_START)
        end == replace(t, QUIET_END)
    IN  IF TimeLE(QUIET_START, QUIET_END)
        THEN start <= t /\ t <= end
        ELSE t >= start \/ t <= end

\* faulty variant: the end of the window is excluded
is_quiet_exclusive(local_dt) ==
    LET start == replace(local_dt, QUIET_START)
        end == replace(local_dt, QUIET_END)
    IN  IF TimeLE(QUIET_START, QUIET_END)
        THEN start <= local_dt /\ local_dt < end
        ELSE local_dt >= start \/ local_dt < end

is_quiet(local_dt) ==
    LET start == replace(local_dt, QUIET_START)
        end == replace(local_dt, QUIET_END)
    IN  IF TimeLE(QUIET_START, QUIET_END)
        THEN start <= local_dt /\ local_dt <= end
        ELSE \* window wraps midnight
             local_dt >= start \/ local_dt <= end

-----------------------------------------------------------------------------
(* Storage: timestamps are stored as ISO-8601 text and ordered as text *)

\* datetime.isoformat(): fixed-width fields <<date, hour, minute, second>>
isoformat(t) == <<t \div DAY, (t % DAY) \div HOUR, (t % HOUR) \div 60, t % 60>>

\* datetime.fromisoformat(s).replace(tzinfo=UTC)
fromisoformat(s) == s[1] * DAY + s[2] * HOUR + s[3] * 60 + s[4]

\* SQLite's comparison of two TEXT values of the same layout: field by field
RECURSIVE TextLessFrom(_, _, _)
TextLessFrom(a, b, i) ==
    IF i > Len(a) THEN FALSE
    ELSE IF a[i] # b[i] THEN a[i] < b[i]
    ELSE TextLessFrom(a, b, i + 1)

TextLess(a, b) == TextLessFrom(a, b, 1)

\* SQL NULL in the last_alert_utc column
NullText == <<>>

\* ids of the rows "WHERE chat_id=?"
RowsOfChat(ws, chat_id) == {i \in 1..Len(ws) : ws[i].chat_id = chat_id}

\* rows an "ORDER BY ts_utc DESC LIMIT 1" over the row set S may return: a row
\* no other row of S is later than (SQLite leaves the choice among ties open)
LatestOf(ws, S) == {i \in S : \A j \in S : ~TextLess(ws[i].ts_utc, ws[j].ts_utc)}

\* faulty variant: the rows are ordered ascending, so the earliest is returned
last_walk_utc_first(ws, chat_id) ==
    LET S == RowsOfChat(ws, chat_id)
    IN  IF S = {} THEN NoTime
        ELSE fromisoformat(ws[CHOOSE i \in S : \A j \in S : ~TextLess(ws[j].ts_utc, ws[i].ts_utc)].ts_utc)

last_walk_utc(ws, chat_id) ==
    LET S == RowsOfChat(ws, chat_id)
    IN  IF S = {} THEN NoTime
        ELSE fromisoformat(ws[CHOOSE i \in LatestOf(ws, S) : TRUE].ts_utc)

\* "SELECT last_alert_utc FROM chats WHERE chat_id=?" and its parse (lines 235-239)
last_alert_of(cs, chat_id) ==
    IF chat_id \in DOMAIN cs /\ cs[chat_id].last_alert_utc # NullText
    THEN fromisoformat(cs[chat_id].last_alert_utc)
    ELSE NoTime

\* faulty variant: INSERT OR REPLACE, which resets the row of a known chat
insert_or_replace(cs, chat_id, title) ==
    (chat_id :> [title |-> title, last_alert_utc |-> NullText]) @@ cs

\* "INSERT OR IGNORE INTO chats(chat_id, title)"
insert_or_ignore(cs, chat_id, title) ==
    IF chat_id \in DOMAIN cs THEN cs
    ELSE (chat_id :> [title |-> title, last_alert_utc |-> NullText]) @@ cs

\* faulty variant: the UPDATE has no WHERE clause
update_last_alert_all(cs, chat_id, t) ==
    [c \in DOMAIN cs |-> [cs[c] EXCEPT !.last_alert_utc = isoformat(t)]]

\* "UPDATE chats SET last_alert_utc=? WHERE chat_id=?"
update_last_alert(cs, chat_id, t) ==
    IF chat_id \in DOMAIN cs
    THEN [cs EXCEPT ![chat_id].last_alert_utc = isoformat(t)]
    ELSE cs

\* rows that UPDATE has changed, added to the count kept per chat
rowcount(n, cs, chat_id) ==
    IF chat_id \in DOMAIN cs THEN [n EXCEPT ![chat_id] = n[chat_id] + 1] ELSE n

-----------------------------------------------------------------------------
(* maybe_alert_chat up to its await (lines 228-247): what it decides *)

\* faulty variant: the quiet-hours test is missing
verdict_no_quiet(ws, cs, chat_id, t) ==
    LET last == last_walk_utc(ws, chat_id)
        last_alert == last_alert_of(cs, chat_id)
    IN  IF last = NoTime THEN "NoAction"
        ELSE IF t - last < MAX_HOURS * HOUR THEN "NoAction"
        ELSE IF last_alert # NoTime /\ t - last_alert < THROTTLE_HOURS * HOUR THEN "NoAction"
        ELSE "Emit"

\* faulty variant: the throttle test is missing
verdict_no_throttle(ws, cs, chat_id, t) ==
    LET last == last_walk_utc(ws, chat_id)
    IN  IF last = NoTime THEN "NoAction"
        ELSE IF t - last < MAX_HOURS * HOUR THEN "NoAction"
        ELSE IF is_quiet(astimezone(t)) THEN "NoAction"
        ELSE "Emit"

\* faulty variant: the throttle also holds at exactly 6 hours
verdict_throttle_inclusive(ws, cs, chat_id, t) ==
    LET last == last_walk_utc(ws, chat_id)
        last_alert == last_alert_of(cs, chat_id)
    IN  IF last = NoTime THEN "NoAction"
        ELSE IF t - last < MAX_HOURS * HOUR THEN "NoAction"
        ELSE IF is_quiet(astimezone(t)) THEN "NoAction"
        ELSE IF last_alert # NoTime /\ t - last_alert <= THROTTLE_HOURS * HOUR THEN "NoAction"
        ELSE "Emit"

\* hours (line 231) is kept in seconds: hours < MAX_HOURS is t - last < MAX_HOURS * 3600
verdict(ws, cs, chat_id, t) ==
    LET last == last_walk_utc(ws, chat_id)
        last_alert == last_alert_of(cs, chat_id)
        local_now == astimezone(t)
    IN  IF last = NoTime THEN "NoAction"
        ELSE IF t - last < MAX_HOURS * HOUR THEN "NoAction"
        ELSE IF is_quiet(local_now) THEN "NoAction"
        ELSE IF last_alert # NoTime /\ t - last_alert < THROTTLE_HOURS * HOUR THEN "NoAction"
        ELSE "Emit"

\* the loop of overdue_check from position i on: the first key whose
\* evaluation reaches send_message, Len(keys) + 1 when none does
RECURSIVE FirstEmit(_, _, _, _, _)
FirstEmit(keys, i, ws, cs, t) ==
    IF i > Len(keys) THEN i
    ELSE IF verdict(ws, cs, keys[i], t) = "Emit" THEN i
    ELSE FirstEmit(keys, i + 1, ws, cs, t)

\* faulty variant: the latest walk is read from the table as it was before its
\* last insert, the alert time from the table as it is
Frame_stale_walks(keys, i, ws, cs, t) ==
    LET before == SubSeq(ws, 1, Len(ws) - 1)
    IN  [keys |-> keys, i |-> i, last |-> last_walk_utc(before, keys[i]),
         hours |-> t - last_walk_utc(before, keys[i]),
         last_alert |-> last_alert_of(cs, keys[i]), local_now |-> astimezone(t)]

\* locals of a coroutine suspended at line 248
Frame(keys, i, ws, cs, t) ==
    [keys |-> keys, i |-> i, last |-> last_walk_utc(ws, keys[i]),
     hours |-> t - last_walk_utc(ws, keys[i]),
     last_alert |-> last_alert_of(cs, keys[i]), local_now |-> astimezone(t)]

Remove(seq, k) == SubSeq(seq, 1, k - 1) \o SubSeq(seq, k + 1, Len(seq))

Finished == <<>>
Aborted(keys, i) == SubSeq(keys, i + 1, Len(keys))

\* overdue_check runs on from key i without suspending until a send_message, the
\* end of the keys, or an exception: err = 0 when no store read raises, else
\* the position of the key whose reads raise sqlite3.Error.  rest is the other
\* suspended coroutines and k the place of this one among them.
run_from(keys, i, rest, k, cs, err) ==
    LET j == FirstEmit(keys, i, walks, cs, now)
    IN  IF err # 0
        THEN /\ err >= i /\ err <= j /\ err <= Len(keys)
             /\ jobs' = rest
             /\ ended' = Aborted(keys, err)
        ELSE IF j <= Len(keys)
        THEN /\ jobs' = SubSeq(rest, 1, k - 1) \o <<Frame(keys, j, walks, cs, now)>>
                        \o SubSeq(rest, k, Len(rest))
             /\ UNCHANGED ended
        ELSE /\ jobs' = rest
             /\ ended' = Finished

-----------------------------------------------------------------------------
(* Handlers *)

\* faulty variant: /start stores the chat's current title over the recorded one
start_renames(chat_id, title) ==
    /\ chat_data' = IF \E i \in 1..Len(chat_data) : chat_data[i] = chat_id
                    THEN chat_data ELSE Append(chat_data, chat_id)
    /\ chats' = IF chat_id \in DOMAIN chats
                THEN [chats EXCEPT ![chat_id].title = title]
                ELSE insert_or_ignore(chats, chat_id, title)
    /\ UNCHANGED <<now, QUIET_START, QUIET_END, walks, jobs, next_run, delivered, failed,
                   ended, ret, digest, alert_writes>>

\* /start (lines 272-279): touching context.chat_data creates the chat's entry
\* in application.chat_data; the chats row is created when absent
start(chat_id, title) ==
    /\ chat_data' = IF \E i \in 1..Len(chat_data) : chat_data[i] = chat_id
                    THEN chat_data ELSE Append(chat_data, chat_id)
    /\ chats' = insert_or_ignore(chats, chat_id, title)
    /\ UNCHANGED <<now, QUIET_START, QUIET_END, walks, jobs, next_run, delivered, failed,
                   ended, ret, digest, alert_writes>>

\* faulty variant: the walk is inserted without the chats row
log_walk_no_chat(chat_id, user_id, title) ==
    /\ walks' = Append(walks, [chat_id |-> chat_id, user_id |-> user_id,
                               ts_utc |-> isoformat(now), poop |-> NoPoop])
    /\ UNCHANGED <<now, QUIET_START, QUIET_END, chat_data, chats, jobs, next_run, delivered,
                   failed, ended, ret, digest, alert_writes>>

\* /paseo and the keyword trigger (lines 98-111): one transaction
log_walk(chat_id, user_id, title) ==
    /\ chats' = insert_or_ignore(chats, chat_id, title)
    /\ walks' = Append(walks, [chat_id |-> chat_id, user_id |-> user_id,
                               ts_utc |-> isoformat(now), poop |-> NoPoop])
    /\ UNCHANGED <<now, QUIET_START, QUIET_END, chat_data, jobs, next_run, delivered, failed,
                   ended, ret, digest, alert_writes>>

\* "with db() as conn" left by an exception: the connection rolls back to the
\* tables as they were before the block
rollback(before, inside) == before

\* faulty variant: every statement is committed on its own
log_walk_raises_autocommit(chat_id, user_id, title, at) ==
    LET cs == IF at > 1 THEN insert_or_ignore(chats, chat_id, title) ELSE chats
    IN  /\ chats' = cs
        /\ walks' = walks
        /\ ret' = [fn |-> "log_walk", arg |-> chat_id, val |-> "sqlite3.Error"]
        /\ UNCHANGED <<now, QUIET_START, QUIET_END, chat_data, jobs, next_run, delivered,
                       failed, ended, digest, alert_writes>>

\* log_walk when its at-th execute raises sqlite3.Error (lines 101-107): the
\* block is left, nothing is committed, and the exception leaves log_walk, so
\* neither reply is sent
log_walk_raises(chat_id, user_id, title, at) ==
    LET cs == IF at > 1 THEN insert_or_ignore(chats, chat_id, title) ELSE chats
    IN  /\ chats' = rollback(chats, cs)
        /\ walks' = rollback(walks, walks)
        /\ ret' = [fn |-> "log_walk", arg |-> chat_id, val |-> "sqlite3.Error"]
        /\ UNCHANGED <<now, QUIET_START, QUIET_END, chat_data, jobs, next_run, delivered,
                       failed, ended, digest, alert_writes>>

\* callback data -> stored value (lines 130-136); "" is mapping.get's None
mapping(data) ==
    CASE data = "poop_ok" -> "Normal"
      [] data = "poop_soft" -> "Blanda"
      [] data = "poop_diarrhea" -> "Diarrea"
      [] data = "poop_none" -> "none"
      [] OTHER -> ""

\* rows the sub-select of lines 146-148 may return
\* faulty variant: the sub-select forgets the user
vote_target_any_user(ws, chat_id, user_id) ==
    LatestOf(ws, RowsOfChat(ws, chat_id))

vote_target(ws, chat_id, user_id) ==
    LatestOf(ws, {i \in RowsOfChat(ws, chat_id) : ws[i].user_id = user_id})

\* the poll answer (lines 127-151)
handle_poop_vote(chat_id, user_id, data) ==
    LET val == mapping(data)
        T == vote_target(walks, chat_id, user_id)
    IN  /\ IF val = "" \/ T = {}
           THEN walks' = walks
           ELSE \E id \in T : walks' = [walks EXCEPT ![id].poop = val]
        /\ UNCHANGED <<now, QUIET_START, QUIET_END, chat_data, chats, jobs, next_run,
                       delivered, failed, ended, ret, digest, alert_writes>>

\* the repeating job fires (lines 221-224, 315): a new overdue_check over a
\* snapshot of the keys
overdue_check(err) ==
    /\ now >= next_run
    /\ next_run' = now + INTERVAL
    /\ run_from(chat_data, 1, jobs, Len(jobs) + 1, chats, err)
    /\ UNCHANGED <<now, QUIET_START, QUIET_END, chat_data, chats, walks, delivered, failed, ret,
                   digest, alert_writes>>

\* send_message of the k-th suspended coroutine returns: lines 250-252 store
\* the alert time, then the loop goes on with the next key.  write_fails: the
\* UPDATE raises sqlite3.Error, which ends the coroutine.
send_returns(k, write_fails, err) ==
    LET f == jobs[k]
        chat_id == f.keys[f.i]
        cs == update_last_alert(chats, chat_id, now)
    IN  /\ delivered' = [delivered EXCEPT ![chat_id] = f.local_now - UTC_OFFSET]
        /\ IF write_fails
           THEN /\ err = 0
                /\ chats' = chats
                /\ alert_writes' = alert_writes
                /\ jobs' = Remove(jobs, k)
                /\ ended' = Aborted(f.keys, f.i)
           ELSE /\ chats' = cs
                /\ alert_writes' = rowcount(alert_writes, chats, chat_id)
                /\ run_from(f.keys, f.i + 1, Remove(jobs, k), k, cs, err)
        /\ UNCHANGED <<now, QUIET_START, QUIET_END, chat_data, walks, next_run, failed, ret,
                       digest>>

\* send_message of the k-th suspended coroutine raises (TelegramError): the
\* exception leaves maybe_alert_chat and overdue_check
\* faulty variant: the alert time is stored although the send raised
send_raises_marks(k) ==
    LET f == jobs[k]
        chat_id == f.keys[f.i]
    IN  /\ jobs' = Remove(jobs, k)
        /\ ended' = Aborted(f.keys, f.i)
        /\ failed' = [failed EXCEPT ![chat_id] = f.local_now - UTC_OFFSET]
        /\ chats' = update_last_alert(chats, chat_id, now)
        /\ alert_writes' = rowcount(alert_writes, chats, chat_id)
        /\ UNCHANGED <<now, QUIET_START, QUIET_END, chat_data, walks, next_run,
                       delivered, ret, digest>>

send_raises(k) ==
    LET f == jobs[k]
        chat_id == f.keys[f.i]
    IN  /\ jobs' = Remove(jobs, k)
        /\ ended' = Aborted(f.keys, f.i)
        /\ failed' = [failed EXCEPT ![chat_id] = f.local_now - UTC_OFFSET]
        /\ UNCHANGED <<now, QUIET_START, QUIET_END, chat_data, chats, walks, next_run,
                       delivered, ret, digest, alert_writes>>

(* Statistics, export and the daily digest *)

\* "SELECT ... FROM walks WHERE chat_id=? ORDER BY ts_utc ASC": the rows S of
\* ws in ascending text order of ts_utc
RECURSIVE OrderAsc(_, _)
OrderAsc(ws, S) ==
    IF S = {} THEN <<>>
    ELSE LET i == CHOOSE i \in S : \A j \in S : ~TextLess(ws[j].ts_utc, ws[i].ts_utc)
         IN  <<ws[i]>> \o OrderAsc(ws, S \ {i})

RECURSIVE sum(_)
sum(seq) == IF seq = <<>> THEN 0 ELSE Head(seq) + sum(Tail(seq))

\* a float is kept as an exact fraction num / den
Float(num, den) == [num |-> num, den |-> den]
FloatEq(a, b) == a.num * b.den = b.num * a.den

\* r["poop"] or "unknown"
poop_key(r) == IF r.poop = NoPoop \/ r.poop = "" THEN "unknown" ELSE r.poop

\* the loop of lines 169-172 over the rows from position i on
RECURSIVE poop_counts_from(_, _, _)
poop_counts_from(rows, i, acc) ==
    IF i > Len(rows) THEN acc
    ELSE LET k == poop_key(rows[i])
         IN  poop_counts_from(rows, i + 1,
                              IF k \in DOMAIN acc THEN [acc EXCEPT ![k] = acc[k] + 1]
                              ELSE (k :> 1) @@ acc)

\* faulty variant: the gaps are averaged over the number of rows
chat_stats_per_row(ws, chat_id) ==
    LET rows == OrderAsc(ws, RowsOfChat(ws, chat_id))
        times == [i \in 1..Len(rows) |-> fromisoformat(rows[i].ts_utc)]
        gaps == [i \in 1..(Len(times) - 1) |-> times[i + 1] - times[i]]
    IN  IF rows = <<>>
        THEN [total |-> 0, first |-> NoTime, last |-> NoTime, avg_gap |-> Float(0, 1),
              poop_counts |-> <<>>]
        ELSE [total |-> Len(rows), first |-> times[1], last |-> times[Len(times)],
              avg_gap |-> IF gaps # <<>> THEN Float(sum(gaps), HOUR * Len(rows))
                          ELSE Float(0, 1),
              poop_counts |-> poop_counts_from(rows, 1, <<>>)]

\* chat_stats (lines 156-173); the gaps are kept in seconds and the division by
\* 3600.0 goes into the denominator of avg_gap
chat_stats(ws, chat_id) ==
    LET rows == OrderAsc(ws, RowsOfChat(ws, chat_id))
        times == [i \in 1..Len(rows) |-> fromisoformat(rows[i].ts_utc)]
        gaps == [i \in 1..(Len(times) - 1) |-> times[i + 1] - times[i]]
    IN  IF rows = <<>>
        THEN [total |-> 0, first |-> NoTime, last |-> NoTime, avg_gap |-> Float(0, 1),
              poop_counts |-> <<>>]
        ELSE [total |-> Len(rows), first |-> times[1], last |-> times[Len(times)],
              avg_gap |-> IF gaps # <<>> THEN Float(sum(gaps), HOUR * Len(gaps))
                          ELSE Float(0, 1),
              poop_counts |-> poop_counts_from(rows, 1, <<>>)]

\* /stats (lines 176-190): reads only; the reply is the tuple of chat_stats
cmd_stats(chat_id) ==
    /\ ret' = [fn |-> "chat_stats", arg |-> chat_id, val |-> chat_stats(walks, chat_id)]
    /\ UNCHANGED <<now, QUIET_START, QUIET_END, chat_data, chats, walks, jobs, next_run,
                   delivered, failed, ended, digest, alert_writes>>

\* /csv (lines 193-215): reads only; the document lists the rows in ascending order
cmd_csv(chat_id) ==
    /\ ret' = [fn |-> "cmd_csv", arg |-> chat_id,
               val |-> [i \in 1..Cardinality(RowsOfChat(walks, chat_id)) |->
                           LET r == OrderAsc(walks, RowsOfChat(walks, chat_id))[i]
                           IN  <<r.ts_utc, r.poop>>]]
    /\ UNCHANGED <<now, QUIET_START, QUIET_END, chat_data, chats, walks, jobs, next_run,
                   delivered, failed, ended, digest, alert_writes>>

\* a direct call of last_walk_utc
call_last_walk_utc(chat_id) ==
    /\ ret' = [fn |-> "last_walk_utc", arg |-> chat_id, val |-> last_walk_utc(walks, chat_id)]
    /\ UNCHANGED <<now, QUIET_START, QUIET_END, chat_data, chats, walks, jobs, next_run,
                   delivered, failed, ended, digest, alert_writes>>

\* run_daily(daily_digest, time=time(hour=9, minute=00, tzinfo=TZ)) (line 317)
DIGEST_TIME == parse_hhmm(<<9, 0>>)

\* the first local instant at or after local_dt whose time of day is DIGEST_TIME
next_digest(local_dt) ==
    LET at == replace(local_dt, DIGEST_TIME)
    IN  IF at >= local_dt THEN at ELSE at + DAY

\* the job queue at start-up (local time local_dt): no digest is running (i = 0),
\* the first one is due at the next DIGEST_TIME; sent lists the chats the last
\* run has messaged
DigestIdle(local_dt) == [keys |-> <<>>, i |-> 0, sent |-> <<>>, next |-> next_digest(local_dt)]

\* the loop of daily_digest from position i on: the first key with total # 0
RECURSIVE FirstDigest(_, _, _)
FirstDigest(keys, i, ws) ==
    IF i > Len(keys) THEN i
    ELSE IF chat_stats(ws, keys[i]).total # 0 THEN i
    ELSE FirstDigest(keys, i + 1, ws)

\* daily_digest runs on from key i until its next send_message or its end
digest_from(keys, i, sent, next) ==
    LET j == FirstDigest(keys, i, walks)
    IN  digest' = [keys |-> keys, i |-> IF j <= Len(keys) THEN j ELSE 0, sent |-> sent,
                   next |-> next]

\* the daily job fires (lines 255-267): a snapshot of the keys, then the loop
daily_digest ==
    /\ digest.i = 0
    /\ astimezone(now) >= digest.next
    /\ digest_from(chat_data, 1, <<>>, digest.next + DAY)
    /\ UNCHANGED <<now, QUIET_START, QUIET_END, chat_data, chats, walks, jobs, next_run,
                   delivered, failed, ended, ret, alert_writes>>

\* send_message of the digest returns: the loop goes on with the next key
digest_send_returns ==
    /\ digest.i # 0
    /\ digest_from(digest.keys, digest.i + 1, Append(digest.sent, digest.keys[digest.i]),
                   digest.next)
    /\ UNCHANGED <<now, QUIET_START, QUIET_END, chat_data, chats, walks, jobs, next_run,
                   delivered, failed, ended, ret, alert_writes>>

\* send_message of the digest raises: the exception leaves daily_digest
digest_send_raises ==
    /\ digest.i # 0
    /\ digest' = [digest EXCEPT !.i = 0]
    /\ UNCHANGED <<now, QUIET_START, QUIET_END, chat_data, chats, walks, jobs, next_run,
                   delivered, failed, ended, ret, alert_writes>>

\* the clock moves on
advance(d) ==
    /\ now' = now + d
    /\ UNCHANGED <<QUIET_START, QUIET_END, chat_data, chats, walks, jobs, next_run,
                   delivered, failed, ended, ret, digest, alert_writes>>

InstantOf(d, hms) == d * DAY + hms[1] * HOUR + hms[2] * 60 + hms[3] - UTC_OFFSET

StoreEmpty ==
    /\ chat_data = <<>>
    /\ chats = <<>>
    /\ walks = <<>>
    /\ jobs = <<>>
    /\ delivered = [c \in Chats |-> NoTime]
    /\ failed = [c \in Chats |-> NoTime]
    /\ ended = Finished
    /\ digest = DigestIdle(astimezone(now))
    /\ alert_writes = [c \in Chats |-> 0]

-----------------------------------------------------------------------------
(* The bot: handlers, the repeating job and the clock *)

MaxWalks == 1
MaxJobs == 2
MaxSteps == 3

STEP == 6 * INTERVAL
Users == {10, 11}

Env == { <<<<23, 0>>, <<7, 30>>>>, <<<<12, 0>>, <<15, 0>>>> }
T0 == InstantOf(1, <<1, 0, 0>>)

Init ==
    /\ \E e \in Env :
          /\ QUIET_START = parse_hhmm(e[1])
          /\ QUIET_END = parse_hhmm(e[2])
    /\ now = T0
    /\ next_run = now + FIRST
    /\ StoreEmpty
    /\ ret = None

Errs == 0..Cardinality(Chats)

Start == \E c \in Chats, title \in Titles : start(c, title)

LogWalk ==
    /\ Len(walks) < MaxWalks
    /\ \E c \in Chats, title \in Titles : log_walk(c, 10, title)

Vote == \E c \in Chats, data \in {"poop_ok", "poop_other"} : handle_poop_vote(c, 10, data)

Tick ==
    /\ Len(jobs) < MaxJobs
    /\ \E err \in Errs : overdue_check(err)

SendReturns == \E k \in 1..Len(jobs), w \in BOOLEAN, err \in Errs : send_returns(k, w, err)

SendRaises == \E k \in 1..Len(jobs) : send_raises(k)

Advance ==
    /\ now + STEP <= T0 + MaxSteps * STEP
    /\ advance(STEP)

Next ==
    \/ Start
    \/ LogWalk
    \/ Vote
    \/ Tick
    \/ SendReturns
    \/ SendRaises
    \/ Advance

Spec == Init /\ [][Next]_vars

\* the same bot when the database never raises: only send_message may fail
TickNoFault ==
    /\ Len(jobs) < MaxJobs
    /\ overdue_check(0)

SendReturnsNoFault == \E k \in 1..Len(jobs) : send_returns(k, FALSE, 0)

NextNoFault ==
    \/ Start
    \/ LogWalk
    \/ Vote
    \/ TickNoFault
    \/ SendReturnsNoFault
    \/ SendRaises
    \/ Advance

SpecNoFault == Init /\ [][NextNoFault]_vars

-----------------------------------------------------------------------------
(* The store under reports and poll answers of several users: no sweep; the *)
(* clock moves by seconds, so two walks may carry the same timestamp.       *)

MaxEvents == 3
MaxTicks == 1

\* a known token and one the mapping does not know
StoreTokens == {"poop_ok", "poop_other"}

\* two reporters of one group and a reporter of another group
StorePairs == {<<1, 10>>, <<1, 11>>, <<2, 10>>}

StoreLogWalk ==
    /\ Len(walks) < MaxEvents
    /\ \E p \in StorePairs, title \in Titles : log_walk(p[1], p[2], title)

StoreLogWalkRaises ==
    \E p \in StorePairs, title \in Titles, at \in {1, 2} : log_walk_raises(p[1], p[2], title, at)

StoreVote == \E p \in StorePairs, data \in StoreTokens : handle_poop_vote(p[1], p[2], data)

\* only the order of the timestamps matters to the store, so the clock moves
\* between two events
StoreAdvance ==
    /\ now + 1 <= T0 + MaxTicks
    /\ Len(walks) > 0 /\ Len(walks) < MaxEvents
    /\ advance(1)

NextStore ==
    \/ StoreLogWalk
    \/ StoreLogWalkRaises
    \/ StoreVote
    \/ StoreAdvance

InitStore ==
    /\ QUIET_START = parse_hhmm(<<23, 0>>)
    /\ QUIET_END = parse_hhmm(<<7, 30>>)
    /\ now = T0
    /\ next_run = now + FIRST
    /\ StoreEmpty
    /\ ret = None

SpecStore == InitStore /\ [][NextStore]_vars

-----------------------------------------------------------------------------
(* One evaluation: a registered chat whose history, alert time and clock    *)
(* are drawn from bounded sets, then the job fires once.                    *)

EvalTimes == { <<14, 0, 0>>, <<23, 30, 0>>, <<7, 30, 0>>, <<7, 30, 45>>, <<22, 59, 59>> }
WalkAges == { 6 * HOUR - 1, 6 * HOUR, 7 * HOUR, 13 * HOUR }
AlertAges == { 0, HOUR, 6 * HOUR - 1, 6 * HOUR, 6 * HOUR + 1 }

Walk(chat_id, t) == [chat_id |-> chat_id, user_id |-> 10, ts_utc |-> isoformat(t),
                     poop |-> NoPoop]

InitEval ==
    /\ \E e \in Env :
          /\ QUIET_START = parse_hhmm(e[1])
          /\ QUIET_END = parse_hhmm(e[2])
    /\ \E hms \in EvalTimes : now = InstantOf(2, hms)
    /\ next_run = now
    /\ chat_data = <<1>>
    /\ \/ walks = <<>>
       \/ \E d \in WalkAges : walks = <<Walk(1, now - d)>>
       \/ \E d1, d2 \in WalkAges : d1 > d2 /\ walks = <<Walk(1, now - d1), Walk(1, now - d2)>>
    \* a stored alert time is later than some walk by MAX_HOURS or more
    /\ \/ chats = (1 :> [title |-> "dora", last_alert_utc |-> NullText])
       \/ \E a \in AlertAges :
             /\ \E i \in 1..Len(walks) :
                   (now - a) - fromisoformat(walks[i].ts_utc) >= MAX_HOURS * HOUR
             /\ chats = (1 :> [title |-> "dora", last_alert_utc |-> isoformat(now - a)])
    /\ jobs = <<>>
    /\ delivered = [c \in Chats |-> NoTime]
    /\ failed = [c \in Chats |-> NoTime]
    /\ ended = Finished
    /\ ret = None
    /\ digest = DigestIdle(astimezone(now))
    /\ alert_writes = [c \in Chats |-> IF c \in DOMAIN chats /\ chats[c].last_alert_utc # NullText
                                        THEN 1 ELSE 0]

EvalTick == overdue_check(0)

EvalSendReturns == \E k \in 1..Len(jobs) : send_returns(k, FALSE, 0)

EvalSendRaises == \E k \in 1..Len(jobs) : send_raises(k)

NextEval ==
    \/ EvalTick
    \/ EvalSendReturns
    \/ EvalSendRaises

SpecEval == InitEval /\ [][NextEval]_vars

-----------------------------------------------------------------------------
(* A morning of the bot with every handler and the sweep: it starts at     *)
(* midnight local time, a chat may be renamed, one read request is         *)
(* observed.                                                               *)

MaxDayWalks == 1
MaxDaySteps == 3

DayTitles == {"dora", "Dora y Luna"}
DayT0 == InstantOf(1, <<0, 0, 0>>)

DayChats == {1}

InitDay ==
    /\ QUIET_START = parse_hhmm(<<23, 0>>)
    /\ QUIET_END = parse_hhmm(<<7, 30>>)
    /\ now = DayT0
    /\ next_run = now + FIRST
    /\ StoreEmpty
    /\ ret = None

DayStart == \E c \in DayChats, title \in DayTitles : start(c, title)

DayLogWalk ==
    /\ Len(walks) < MaxDayWalks
    /\ \E c \in DayChats, title \in DayTitles : log_walk(c, 10, title)

DayVote == \E c \in DayChats : handle_poop_vote(c, 10, "poop_ok")

DayStats ==
    /\ ret = None
    /\ \E c \in DayChats : cmd_stats(c)

DayCsv ==
    /\ ret = None
    /\ \E c \in DayChats : cmd_csv(c)

\* the job queue runs one instance of a job at a time
DayTick ==
    /\ jobs = <<>>
    /\ overdue_check(0)

DaySendReturns == \E k \in 1..Len(jobs) : send_returns(k, FALSE, 0)

DaySendRaises == \E k \in 1..Len(jobs) : send_raises(k)

DayAdvance ==
    /\ now + STEP <= DayT0 + MaxDaySteps * STEP
    /\ advance(STEP)

NextDay ==
    \/ DayStart
    \/ DayLogWalk
    \/ DayVote
    \/ DayStats
    \/ DayCsv
    \/ DayTick
    \/ DaySendReturns
    \/ DaySendRaises
    \/ DayAdvance

SpecDay == InitDay /\ [][NextDay]_vars

-----------------------------------------------------------------------------
(* The same morning with the daily digest, due at 09:00 local time *)

MaxDigestWalks == 2

DigestStart == \E c \in Chats : start(c, "dora")

DigestLogWalk ==
    /\ Len(walks) < MaxDigestWalks
    /\ \E c \in Chats : log_walk(c, 10, "dora")

NextDigest ==
    \/ DigestStart
    \/ DigestLogWalk
    \/ DayTick
    \/ DaySendReturns
    \/ daily_digest
    \/ digest_send_returns
    \/ digest_send_raises
    \/ DayAdvance

SpecDigest == InitDay /\ [][NextDigest]_vars

-----------------------------------------------------------------------------
(* The read functions alone: a store drawn from bounded sets, possibly one  *)
(* more walk, then one call of last_walk_utc or chat_stats.                 *)

MaxRows == 3

\* ages of the stored walks: hour offsets 0, 2 and 5 from T0
StatsOffsets == {0, 2 * HOUR, 5 * HOUR}
StatsPoops == {NoPoop, "Normal"}
StatsRows == [chat_id : Chats, user_id : {10},
              ts_utc : {isoformat(T0 + d) : d \in StatsOffsets}, poop : StatsPoops]

\* rows written by log_walk carry the clock of their insert, so they are in
\* ascending order of time, and every chat that has a walk has its chats row
InitStats ==
    /\ \E e \in Env :
          /\ QUIET_START = parse_hhmm(e[1])
          /\ QUIET_END = parse_hhmm(e[2])
    /\ now = T0 + 5 * HOUR
    /\ next_run = now + FIRST
    /\ \E n \in 0..MaxRows : \E ws \in [1..n -> StatsRows] :
          /\ \A i \in 1..n, j \in 1..n :
                i < j => fromisoformat(ws[i].ts_utc) <= fromisoformat(ws[j].ts_utc)
          /\ walks = ws
    /\ chats = [c \in {walks[i].chat_id : i \in 1..Len(walks)} |->
                   [title |-> "dora", last_alert_utc |-> NullText]]
    /\ chat_data = <<>>
    /\ jobs = <<>>
    /\ delivered = [c \in Chats |-> NoTime]
    /\ failed = [c \in Chats |-> NoTime]
    /\ ended = Finished
    /\ ret = None
    /\ digest = DigestIdle(astimezone(now))
    /\ alert_writes = [c \in Chats |-> 0]

StatsLogWalk ==
    /\ ret = None
    /\ Len(walks) < MaxRows
    /\ \E c \in Chats, title \in Titles : log_walk(c, 10, title)

CallLastWalk ==
    /\ ret = None
    /\ \E c \in Chats : call_last_walk_utc(c)

CallChatStats ==
    /\ ret = None
    /\ \E c \in Chats : cmd_stats(c)

NextStats ==
    \/ StatsLogWalk
    \/ CallLastWalk
    \/ CallChatStats

SpecStats == InitStats /\ [][NextStats]_vars

-----------------------------------------------------------------------------
(* Specification of the quiet-window predicate alone: the configuration    *)
(* and the instant are drawn from bounded sets and is_quiet is applied.    *)

QuietEnv == { <<<<23, 0>>, <<7, 30>>>>, <<<<12, 0>>, <<15, 0>>>>,
              <<<<7, 30>>, <<7, 30>>>>, <<<<15, 0>>, <<12, 0>>>> }

\* local wall-clock times of day <<h, m, s>> to evaluate
QuietTimes == { <<0, 0, 0>>, <<7, 29, 59>>, <<7, 30, 0>>, <<7, 30, 1>>, <<7, 30, 45>>,
                <<7, 31, 0>>, <<11, 59, 59>>, <<12, 0, 0>>, <<12, 0, 30>>, <<14, 0, 0>>,
                <<15, 0, 0>>, <<15, 0, 45>>, <<15, 1, 0>>, <<22, 59, 59>>, <<23, 0, 0>>,
                <<23, 0, 45>>, <<23, 30, 0>>, <<23, 59, 59>> }

MaxDay == 1

InitQuiet ==
    /\ \E e \in QuietEnv :
          /\ QUIET_START = parse_hhmm(e[1])
          /\ QUIET_END = parse_hhmm(e[2])
    /\ \E d \in 1..MaxDay, hms \in QuietTimes : now = InstantOf(d, hms)
    /\ next_run = now + FIRST
    /\ StoreEmpty
    /\ ret = None

CallIsQuiet ==
    /\ ret.fn = "none"
    /\ ret' = [fn |-> "is_quiet", val |-> is_quiet(astimezone(now))]
    /\ UNCHANGED <<now, QUIET_START, QUIET_END, chat_data, chats, walks, jobs,
                   next_run, delivered, failed, ended, digest, alert_writes>>

NextQuiet == CallIsQuiet

SpecQuiet == InitQuiet /\ [][NextQuiet]_vars

-----------------------------------------------------------------------------
(* Claims about the quiet-window predicate (checked under SpecQuiet) *)

LocalNow == astimezone(now)
MinuteOfDay(tm) == tm.hour * 60 + tm.minute

\* C8: for a time of day t given at hour:minute precision (seconds zero),
\* is_quiet(t) is true iff QUIET_START <= t <= QUIET_END when the window does
\* not wrap, and iff t >= QUIET_START or t <= QUIET_END when it wraps midnight;
\* both boundaries are quiet.
C8_QuietIffInsideWindow ==
    (ret.fn = "is_quiet" /\ LocalNow % 60 = 0) =>
        LET t == (LocalNow % DAY) \div 60
            s == MinuteOfDay(QUIET_START)
            e == MinuteOfDay(QUIET_END)
        IN  ret.val = (IF s <= e THEN s <= t /\ t <= e ELSE t >= s \/ t <= e)

\* the end boundary of a window that wraps midnight was evaluated and is quiet
C8_Witness ==
    /\ ret.fn = "is_quiet"
    /\ LocalNow % 60 = 0
    /\ (LocalNow % DAY) \div 60 = MinuteOfDay(QUIET_END)
    /\ MinuteOfDay(QUIET_START) > MinuteOfDay(QUIET_END)
    /\ ret.val

\* C9 as stated: is_quiet depends only on the hour and minute of the instant,
\* so the instant and the same instant with its seconds set to zero get the
\* same result (07:30:45 would be quiet with QUIET_END 07:30).
C9_SecondsIgnored ==
    ret.fn = "is_quiet" => ret.val = is_quiet(LocalNow - (LocalNow % 60))

\* C9 as amended: is_quiet compares the instant with its seconds against the
\* boundaries taken at second zero: it is quiet iff QUIET_START:00 <= t <=
\* QUIET_END:00 (wrapping: t >= QUIET_START:00 or t <= QUIET_END:00), so inside
\* the minute of QUIET_END only second zero is quiet.
C9_SecondsCompared ==
    ret.fn = "is_quiet" =>
        LET t == LocalNow % DAY
            s == MinuteOfDay(QUIET_START) * 60
            e == MinuteOfDay(QUIET_END) * 60
        IN  ret.val = (IF s <= e THEN s <= t /\ t <= e ELSE t >= s \/ t <= e)

\* an instant 45 seconds into the minute of QUIET_END was evaluated: not quiet
C9_Witness ==
    /\ ret.fn = "is_quiet"
    /\ (LocalNow % DAY) \div 60 = MinuteOfDay(QUIET_END)
    /\ LocalNow % 60 = 45
    /\ ~ret.val

-----------------------------------------------------------------------------
(* Vocabulary of the claims about the sweep, stated apart from the code *)

Range(seq) == {seq[i] : i \in 1..Len(seq)}

\* the local time of day of instant t lies inside QUIET_START..QUIET_END
InQuietWindow(t) ==
    LET tod == astimezone(t) % DAY
        s == MinuteOfDay(QUIET_START) * 60
        e == MinuteOfDay(QUIET_END) * 60
    IN  IF s <= e THEN s <= tod /\ tod <= e ELSE tod >= s \/ tod <= e

EventTimes(c) == {fromisoformat(walks[i].ts_utc) : i \in {j \in 1..Len(walks) : walks[j].chat_id = c}}
Latest(S) == CHOOSE x \in S : \A y \in S : y <= x

\* the group has an event and MAX_HOURS or more have passed since its latest one
Overdue(c, t) == EventTimes(c) # {} /\ t - Latest(EventTimes(c)) >= MAX_HOURS * HOUR

HasAlert(c) == c \in DOMAIN chats /\ chats[c].last_alert_utc # NullText
AlertAt(c) == fromisoformat(chats[c].last_alert_utc)

\* the repeating job fires in this step
TickFires == next_run' # next_run

\* this step calls send_message for group c
EmitStarts(c) ==
    /\ Len(jobs') = Len(jobs) + 1
    /\ jobs'[Len(jobs')].keys[jobs'[Len(jobs')].i] = c
    /\ jobs'[Len(jobs')].local_now = astimezone(now)

-----------------------------------------------------------------------------
(* Claims about the sweep (Spec) *)

\* C1: no reminder is emitted at an instant whose local time of day lies
\* inside the quiet window: neither a reminder handed to the transport and
\* still in flight, nor one delivered, nor one whose delivery failed.
C1_NoReminderInQuietWindow ==
    /\ \A k \in 1..Len(jobs) : ~InQuietWindow(jobs[k].local_now - UTC_OFFSET)
    /\ \A c \in Chats : delivered[c] # NoTime => ~InQuietWindow(delivered[c])
    /\ \A c \in Chats : failed[c] # NoTime => ~InQuietWindow(failed[c])

\* the job has fired at a quiet instant for a registered, overdue group that
\* was never alerted, and nothing was sent
C1_Witness ==
    \E c \in Range(chat_data) :
        /\ Overdue(c, now)
        /\ InQuietWindow(now)
        /\ next_run > now
        /\ ~HasAlert(c)
        /\ jobs = <<>>
        /\ delivered[c] = NoTime /\ failed[c] = NoTime

\* C3: any two successfully delivered reminders for the same group are at
\* least THROTTLE_WINDOW (6 hours) apart.
C3_DeliveriesSixHoursApart ==
    [][\A c \in Chats :
          (delivered[c] # NoTime /\ delivered'[c] # delivered[c]) =>
              delivered'[c] - delivered[c] >= THROTTLE_HOURS * HOUR]_vars

\* C5: when send_message raises, last_alert_utc of the group is left as it
\* was, and, the group's events and alert time being those the evaluation
\* read, the evaluation of the next tick sends again unless that tick is quiet.
C5_FailedDeliveryIsRetried ==
    [][\A k \in 1..Len(jobs) :
          send_raises(k) =>
              LET f == jobs[k]
                  c == f.keys[f.i]
                  next_tick == IF next_run > now THEN next_run ELSE now
              IN  /\ chats' = chats
                  /\ walks' = walks
                  /\ ( /\ EventTimes(c) # {}
                       /\ Latest(EventTimes(c)) = f.last
                       /\ (IF HasAlert(c) THEN AlertAt(c) ELSE NoTime) = f.last_alert
                       /\ ~InQuietWindow(next_tick) )
                     => verdict(walks', chats', c, next_tick) = "Emit"]_vars

\* a delivery failed for a group, nothing was ever delivered to it, and a
\* later evaluation has called send_message for it again
C5_Witness ==
    \E c \in Chats, k \in 1..Len(jobs) :
        /\ failed[c] # NoTime
        /\ delivered[c] = NoTime
        /\ ~HasAlert(c)
        /\ jobs[k].keys[jobs[k].i] = c
        /\ jobs[k].local_now - UTC_OFFSET > failed[c]

\* C6: a failure while evaluating one group does not stop the sweep: every
\* run of overdue_check that has ended evaluated all the keys it started with.
C6_SweepEvaluatesEveryGroup == ended = <<>>

\* C7: whenever the job fires, the keys it iterates over contain every group
\* the store has seen, through a walk or through registration.
C7_SweepCoversKnownGroups ==
    [][TickFires =>
          \A c \in Chats :
              (c \in DOMAIN chats \/ EventTimes(c) # {}) => c \in Range(chat_data)]_vars

-----------------------------------------------------------------------------
(* Claims about one evaluation (SpecEval): one registered chat *)

\* C2: with last_alert_at = T, an evaluation at T <= now < T + 6h sends
\* nothing, and an evaluation after T + 6h of an overdue group outside the
\* quiet window sends.
C2_ThrottleBoundary ==
    [][\A c \in Chats :
          (TickFires /\ chat_data = <<c>> /\ HasAlert(c)) =>
              /\ (AlertAt(c) <= now /\ now < AlertAt(c) + THROTTLE_HOURS * HOUR)
                    => ~EmitStarts(c)
              /\ (now > AlertAt(c) + THROTTLE_HOURS * HOUR /\ Overdue(c, now)
                    /\ ~InQuietWindow(now))
                    => EmitStarts(c)]_vars

\* one second after T + 6h the evaluation has called send_message
C2_Witness ==
    /\ HasAlert(1)
    /\ now = AlertAt(1) + THROTTLE_HOURS * HOUR + 1
    /\ Len(jobs) = 1
    /\ jobs[1].keys[jobs[1].i] = 1
    /\ jobs[1].local_now = astimezone(now)

\* C4: an evaluation sends iff the group has an event, MAX_HOURS or more have
\* passed since the latest one, the local time is outside the quiet window,
\* and last_alert_at is absent or at least 6 hours old.
C4_EmitIffAllFour ==
    [][\A c \in Chats :
          (TickFires /\ chat_data = <<c>>) =>
              (EmitStarts(c) <=>
                  /\ EventTimes(c) # {}
                  /\ now - Latest(EventTimes(c)) >= MAX_HOURS * HOUR
                  /\ ~InQuietWindow(now)
                  /\ (~HasAlert(c) \/ now - AlertAt(c) >= THROTTLE_HOURS * HOUR))]_vars

\* the example: last walk 7 hours ago, 14:00 local time, quiet 23:00-07:30, no
\* alert before: send_message has been called
C4_Witness ==
    /\ QUIET_START = [hour |-> 23, minute |-> 0]
    /\ QUIET_END = [hour |-> 7, minute |-> 30]
    /\ astimezone(now) % DAY = 14 * HOUR
    /\ EventTimes(1) = {now - 7 * HOUR}
    /\ ~HasAlert(1)
    /\ Len(jobs) = 1
    /\ jobs[1].keys[jobs[1].i] = 1
    /\ jobs[1].hours = 7 * HOUR

-----------------------------------------------------------------------------
(* Claims about the store (SpecStore) *)

EventsOf(c, u) == {i \in 1..Len(walks) : walks[i].chat_id = c /\ walks[i].user_id = u}

\* C10: a poll answer of reporter u in group c sets the outcome of exactly one
\* event, one with the latest timestamp among the events of (c, u), and leaves
\* every other event and the group records as they were; with no event of
\* (c, u) nothing changes.
C10_OutcomeOnLatestEventOnly ==
    [][\A c \in Chats, u \in Users, data \in StoreTokens :
          handle_poop_vote(c, u, data) =>
              /\ chats' = chats
              /\ Len(walks') = Len(walks)
              /\ EventsOf(c, u) = {} => walks' = walks
              /\ (EventsOf(c, u) # {} /\ mapping(data) # "") =>
                    \E i \in EventsOf(c, u) :
                        /\ \A j \in EventsOf(c, u) :
                              fromisoformat(walks[j].ts_utc) <= fromisoformat(walks[i].ts_utc)
                        /\ walks'[i] = [walks[i] EXCEPT !.poop = mapping(data)]
                        /\ \A j \in 1..Len(walks) : j # i => walks'[j] = walks[j]]_vars

\* a reporter has an older event without outcome and a later one with an
\* outcome, next to an event of another reporter or group still without one
C10_Witness ==
    \E i, j, o \in 1..Len(walks) :
        /\ walks[i].chat_id = walks[j].chat_id /\ walks[i].user_id = walks[j].user_id
        /\ fromisoformat(walks[i].ts_utc) < fromisoformat(walks[j].ts_utc)
        /\ walks[i].poop = NoPoop
        /\ walks[j].poop # NoPoop
        /\ (walks[o].chat_id # walks[j].chat_id \/ walks[o].user_id # walks[j].user_id)
        /\ walks[o].poop = NoPoop

-----------------------------------------------------------------------------
(* Claims about the read functions (SpecStats) *)

\* number of rows of group c, and the number among them whose outcome counts as k
CountOf(c) == Cardinality({i \in 1..Len(walks) : walks[i].chat_id = c})
CountOfOutcome(c, k) ==
    Cardinality({i \in 1..Len(walks) :
                    /\ walks[i].chat_id = c
                    /\ (IF walks[i].poop = NoPoop THEN "unknown" ELSE walks[i].poop) = k})
Earliest(S) == CHOOSE x \in S : \A y \in S : x <= y
RECURSIVE SumOver(_, _)
SumOver(f, D) == IF D = {} THEN 0 ELSE LET k == CHOOSE k \in D : TRUE
                                         IN  f[k] + SumOver(f, D \ {k})

\* C11: last_walk_utc(group) returns the maximum timestamp among the group's
\* events, none when it has no event; for a group whose only event was just
\* recorded that is this event's timestamp.
C11_LatestEventTime ==
    ret.fn = "last_walk_utc" =>
        ret.val = (IF EventTimes(ret.arg) = {} THEN NoTime ELSE Latest(EventTimes(ret.arg)))

\* the call was made for a group with events at two different times while
\* another group has a later event
C11_Witness ==
    /\ ret.fn = "last_walk_utc"
    /\ Cardinality(EventTimes(ret.arg)) >= 2
    /\ ret.val = Latest(EventTimes(ret.arg))
    /\ \E d \in Chats : EventTimes(d) # {} /\ Latest(EventTimes(d)) > ret.val

\* C12: chat_stats returns the number of the group's events, the mean of the
\* differences between consecutive timestamps in ascending order in hours (0.0
\* with fewer than 2 events; that mean is (latest - earliest) / (count - 1)),
\* and a tally of outcomes with unset ones under "unknown" whose counts sum to
\* the count; no event gives 0, 0.0 and an empty tally, and events at hour
\* offsets 0, 2, 5 give count 3 and average 2.5.
C12_StatsOfGroup ==
    ret.fn = "chat_stats" =>
        LET c == ret.arg
            n == CountOf(c)
            r == ret.val
        IN  /\ r.total = n
            /\ n < 2 => FloatEq(r.avg_gap, Float(0, 1))
            /\ n >= 2 => FloatEq(r.avg_gap,
                                 Float(Latest(EventTimes(c)) - Earliest(EventTimes(c)),
                                       HOUR * (n - 1)))
            /\ \A k \in DOMAIN r.poop_counts :
                  r.poop_counts[k] > 0 /\ r.poop_counts[k] = CountOfOutcome(c, k)
            /\ SumOver(r.poop_counts, DOMAIN r.poop_counts) = n
            /\ n = 0 => DOMAIN r.poop_counts = {}
            /\ (n = 3 /\ EventTimes(c) = {T0, T0 + 2 * HOUR, T0 + 5 * HOUR})
                  => FloatEq(r.avg_gap, Float(5, 2))

\* the example was computed: events at hour offsets 0, 2 and 5, some of them
\* without outcome
C12_Witness ==
    /\ ret.fn = "chat_stats"
    /\ EventTimes(ret.arg) = {T0, T0 + 2 * HOUR, T0 + 5 * HOUR}
    /\ ret.val.total = 3
    /\ FloatEq(ret.val.avg_gap, Float(5, 2))
    /\ "unknown" \in DOMAIN ret.val.poop_counts
    /\ "Normal" \in DOMAIN ret.val.poop_counts

\* C13: every stored walk belongs to a chat that has a row in chats.
C13_EventHasGroupRecord ==
    \A i \in 1..Len(walks) : walks[i].chat_id \in DOMAIN chats

\* walks of two chats are stored, each chat's row created by log_walk
C13_Witness ==
    /\ \E i, j \in 1..Len(walks) : walks[i].chat_id # walks[j].chat_id
    /\ \A i \in 1..Len(walks) : walks[i].chat_id \in DOMAIN chats
    /\ chat_data = <<>>

\* C16: when an execute of log_walk raises, chats and walks are as before the
\* call (no walk, no newly created chats row) and the exception leaves log_walk.
C16_RecordEventAtomic ==
    [][\A p \in StorePairs, title \in Titles, at \in {1, 2} :
          log_walk_raises(p[1], p[2], title, at) =>
              /\ walks' = walks
              /\ chats' = chats
              /\ ret'.fn = "log_walk" /\ ret'.val = "sqlite3.Error"]_vars

\* log_walk has failed for a chat without a chats row while another chat has
\* walks: the row of the first is still absent
C16_Witness ==
    /\ ret.fn = "log_walk"
    /\ ret.val = "sqlite3.Error"
    /\ ret.arg \notin DOMAIN chats
    /\ walks # <<>>

-----------------------------------------------------------------------------
(* Further claims about the sweep (Spec) *)

\* C14: last_alert_utc of a chat, once set, is never NULL again and never
\* decreases: every step leaves it as it was or replaces it by a later value.
C14_LastAlertMonotone ==
    [][\A c \in Chats :
          HasAlert(c) =>
              /\ c \in DOMAIN chats'
              /\ chats'[c].last_alert_utc # NullText
              /\ fromisoformat(chats'[c].last_alert_utc) >= AlertAt(c)]_vars

\* the alert time of a chat has been written a second time
C14_Witness ==
    \E c \in Chats : alert_writes[c] >= 2 /\ HasAlert(c) /\ AlertAt(c) = now

-----------------------------------------------------------------------------
(* Claims about the daily digest (SpecDigest) *)

DigestFires == digest'.next # digest.next
DigestSent == Len(digest'.sent) = Len(digest.sent) + 1

\* a step of the digest leaves chats and walks, and so every alert decision,
\* as they were
DigestKeepsStore ==
    digest' # digest =>
        /\ chats' = chats
        /\ walks' = walks
        /\ \A c \in Chats : verdict(walks', chats', c, now) = verdict(walks, chats, c, now)

\* a digest message goes to a chat that has a walk, and the loop passes over
\* a key only when its chat has none
DigestOnlyForGroupsWithEvents ==
    /\ DigestSent => EventTimes(digest'.sent[Len(digest'.sent)]) # {}
    /\ (DigestFires \/ DigestSent) =>
          LET from == IF DigestFires THEN 1 ELSE digest.i + 1
              to == IF digest'.i = 0 THEN Len(digest'.keys) ELSE digest'.i - 1
          IN  \A m \in from..to : EventTimes(digest'.keys[m]) = {}

\* the keys of a digest run contain every chat that has a walk
DigestCoversGroupsWithEvents ==
    DigestFires => \A c \in Chats : EventTimes(c) # {} => c \in Range(digest'.keys)

\* C15: the digest sends no message for a group with zero events and one for
\* every known group with at least one event, and building or sending digests
\* changes neither the events nor last_alert_at of any group.
C15_DigestForEveryGroupWithEvents ==
    [][DigestKeepsStore /\ DigestOnlyForGroupsWithEvents /\ DigestCoversGroupsWithEvents]_vars

\* the part of C15 that the code keeps: the store is untouched and only chats
\* with walks are messaged
DigestReadOnly == [][DigestKeepsStore /\ DigestOnlyForGroupsWithEvents]_vars

-----------------------------------------------------------------------------
(* Claims about the chats rows (SpecDay) *)

\* this step is the return of a delivered reminder for chat c whose UPDATE commits
DeliveredTo(c) ==
    \E k \in 1..Len(jobs) : jobs[k].keys[jobs[k].i] = c /\ send_returns(k, FALSE, 0)

\* C17: the chats row of a known chat changes only when a reminder for it has
\* been delivered, and then only in last_alert_utc: a walk, /start of a known
\* chat (also under a new title), a poll answer, /stats, /csv, an evaluation
\* without reminder and a failed delivery leave title and last_alert_utc alone.
C17_GroupRecordChangesOnlyOnDelivery ==
    [][\A c \in DOMAIN chats :
          /\ c \in DOMAIN chats'
          /\ chats'[c].title = chats[c].title
          /\ chats'[c].last_alert_utc # chats[c].last_alert_utc => DeliveredTo(c)]_vars

\* a chat has been reminded once and its row carries the alert time, after a
\* poll answer and a read request, with the title it was first seen under
C17_Witness ==
    /\ HasAlert(1)
    /\ alert_writes[1] = 1
    /\ chats[1].title = "Dora y Luna"
    /\ \E i \in 1..Len(walks) : walks[i].poop # NoPoop
    /\ ret.fn \in {"chat_stats", "cmd_csv"}

-----------------------------------------------------------------------------
(* The bot over a day in which the job queue keeps running.  run_repeating
   (line 315) starts overdue_check every INTERVAL seconds and the clock of
   the model moves in steps of STEP, so every run that is due is started, and
   its send_message has ended, before the clock moves on.  A send_message may
   raise once for each chat and returns from then on.  One walk at most is
   logged in each chat, and /start is sent, at the first instant only. *)

MaxLiveSteps == 5

LiveStart ==
    /\ now = T0
    /\ \E c \in Chats : start(c, "dora")

LiveLogWalk ==
    /\ now = T0
    /\ \E c \in Chats :
          /\ EventTimes(c) = {}
          /\ log_walk(c, 10, "dora")

LiveTick ==
    /\ jobs = <<>>
    /\ overdue_check(0)

LiveSendReturns == \E k \in 1..Len(jobs) : send_returns(k, FALSE, 0)

LiveSendRaises ==
    \E k \in 1..Len(jobs) :
        /\ failed[jobs[k].keys[jobs[k].i]] = NoTime
        /\ send_raises(k)

LiveAdvance ==
    /\ jobs = <<>>
    /\ now < next_run
    /\ now + STEP <= T0 + MaxLiveSteps * STEP
    /\ advance(STEP)

NextLive ==
    \/ LiveStart
    \/ LiveLogWalk
    \/ LiveTick
    \/ LiveSendReturns
    \/ LiveSendRaises
    \/ LiveAdvance

SpecLive ==
    /\ Init
    /\ [][NextLive]_vars
    /\ WF_vars(LiveTick)
    /\ WF_vars(LiveSendReturns \/ LiveSendRaises)
    /\ WF_vars(LiveAdvance)

LiveRegisteredReminded ==
    \A c \in Chats :
        (EventTimes(c) # {} /\ c \in Range(chat_data)) ~> (delivered[c] # NoTime)

\* a reminder that was postponed by a failed send and by the quiet window
LivePostponed ==
    \E c \in Chats :
        /\ failed[c] # NoTime /\ delivered[c] # NoTime
        /\ delivered[c] > failed[c]

\* the coroutines that reach send_message in this step
NewFrames == {k \in 1..Len(jobs') : jobs'[k] \notin Range(jobs)}

\* what a coroutine suspended in this step read is the store as this step
\* leaves it, and its decision is the decision on that store
FrameFromOneStore ==
    \A k \in NewFrames :
        LET f == jobs'[k]
            c == f.keys[f.i]
        IN  /\ f.last = last_walk_utc(walks', c)
            /\ f.last_alert = last_alert_of(chats', c)
            /\ verdict(walks', chats', c, now') = "Emit"

\* a chats row created by a reported walk comes with the walk, in one step
ReportInOneStep ==
    \A c \in Chats :
        (c \notin DOMAIN chats /\ c \in DOMAIN chats' /\ chat_data' = chat_data)
            => /\ Len(walks') = Len(walks) + 1
               /\ walks'[Len(walks')].chat_id = c

\* C19: when a walk is reported while a sweep is under way, every decision of
\* the sweep is computed from one state of the store, the one before the
\* report or the one after it; the latest walk and the alert time are never
\* taken from different states, and no state has the chats row of a report
\* without its walk
C19_DecisionFromOneStoreState == [][FrameFromOneStore /\ ReportInOneStep]_vars

\* a walk was reported for the chat a suspended sweep is about to remind
C19_Witness ==
    \E k \in 1..Len(jobs) :
        LET c == jobs[k].keys[jobs[k].i]
        IN  /\ last_walk_utc(walks, c) > jobs[k].last
            /\ jobs[k].last_alert = last_alert_of(chats, c)

-----------------------------------------------------------------------------
(* Two chats through a day: walks, votes and reminders of both *)

\* one walk at most in each chat
IsoLogWalk ==
    \E c \in Chats :
        /\ RowsOfChat(walks, c) = {}
        /\ log_walk(c, 10, "dora")

IsoVote == \E c \in Chats : handle_poop_vote(c, 10, "poop_ok")

NextIso ==
    \/ DigestStart
    \/ IsoLogWalk
    \/ IsoVote
    \/ DayTick
    \/ DaySendReturns
    \/ DaySendRaises
    \/ DayAdvance

SpecIso == InitDay /\ [][NextIso]_vars

\* the store with the rows of chat c only
WalksOnlyOf(ws, c) == SelectSeq(ws, LAMBDA r : r.chat_id = c)
ChatsOnlyOf(cs, c) == [k \in DOMAIN cs \cap {c} |-> cs[k]]

WalksOf(ws, c) == [i \in RowsOfChat(ws, c) |-> ws[i]]

\* the chats whose walks or chats row this step changes
Touched ==
    {c \in Chats :
        \/ WalksOf(walks', c) # WalksOf(walks, c)
        \/ last_alert_of(chats', c) # last_alert_of(chats, c)}

\* a step changes the walks and the alert time of one chat at most, the chat
\* it is about; a sweep that sends nothing changes none
OneChatPerStep ==
    /\ Cardinality(Touched) <= 1
    /\ \A c \in Chats : DeliveredTo(c) => Touched \subseteq {c}
    /\ TickFires => Touched = {}

\* verdict and chat_stats of chat c on the store are those on the rows of c alone
SameWithoutOthers(ws, cs, t, c) ==
    /\ verdict(ws, cs, c, t) = verdict(WalksOnlyOf(ws, c), ChatsOnlyOf(cs, c), c, t)
    /\ chat_stats(ws, c) = chat_stats(WalksOnlyOf(ws, c), c)

\* C20: an operation on one chat (a walk, a vote, an evaluation, a delivered
\* reminder) leaves the walks and last_alert_utc of every other chat as they
\* were, and the alert decision and the statistics of a chat are those
\* computed from its own rows, whatever the other chats' rows are
C20_PerGroupIsolation ==
    [][/\ OneChatPerStep
       /\ \A c \in Chats : SameWithoutOthers(walks', chats', now', c)]_vars

\* chat 1 has a walk with a vote and a delivered reminder, chat 2 a walk and
\* no reminder
C20_Witness ==
    /\ HasAlert(1) /\ delivered[1] # NoTime
    /\ \E i \in RowsOfChat(walks, 1) : walks[i].poop # NoPoop
    /\ EventTimes(2) # {}
    /\ ~HasAlert(2)
====
